---- MODULE Spec2Model ----
(***************************************************************************)
(* The streaming pipeline of GaGe_Python/mp_stream.py: stream() as a state *)
(* machine (one action per device call or loop step), the DoAnalysis       *)
(* worker threads it starts, and the supervisor that may set the stop      *)
(* signal.                                                                 *)
(*                                                                         *)
(* Data is modelled by sample numbers: the k-th filled transfer buffer     *)
(* holds the samples (k-1)*b+1 .. k*b, where b is the buffer length in     *)
(* samples; 0 is the content of memory that was zero-initialised.          *)
(***************************************************************************)
EXTENDS Integers, Sequences, FiniteSets, TLC

\* ------------------------------------------------------------------ bounds
MaxThreads == 2
MaxBufLen == 2
MaxSaveLen == 2
MaxUpdate == 2
MaxLoops == 2
\* Transfers followed in the long runs, where the four streaming buffers and
\* the thread slots are reused.
MaxDeepLoops == 6

\* ------------------------------------------------------- program constants
\* len(buffer_list): buffer1 .. buffer4
NBuffers == 4
\* bytes per sample of the int16 transfer buffers
SampleSize == 2

SaveModes == {"save", "save average"}

VARIABLES
    cfg,                       \* the arguments of stream(): mode, N_threads, sizes
    pc,                        \* position of the main thread in stream()
    stream_ready_event,
    stream_start_event,
    stream_stop_event,
    stream_error_event,
    stream_exit_event,
    devlog,                    \* release / abort / free calls made on the device, in order
    nalloc,                    \* streaming buffers obtained so far
    done,
    stream_completed_success,
    work_buffer_active,
    loop_count,
    buffer_count,
    thread_count,
    work_threads,              \* slot -> the thread object stored in it
    active_threads,
    buffer_list,               \* physical buffer -> number of the fill it holds
    WorkBuffer,                \* number of the fill copied into stream_info.WorkBuffer
    g_cardTotalData,
    stream_info,               \* the segment tracker fields of the StreamInfo instance
    modeBound,                 \* the local name `mode` has been assigned (line 507)
    memmapBound,               \* the local name `memmap` has been assigned (line 517)
    X,                         \* the result sink (mp_arrays[0])
    mp_total_data,
    mp_loop_count,
    hist                       \* history: what has happened so far in this run

events == <<stream_ready_event, stream_start_event, stream_stop_event,
            stream_error_event, stream_exit_event>>
loopvars == <<done, stream_completed_success, work_buffer_active, loop_count,
              buffer_count, thread_count>>
threadvars == <<work_threads, active_threads>>
datavars == <<buffer_list, WorkBuffer, g_cardTotalData>>
sinkvars == <<X, mp_total_data, mp_loop_count>>
bindvars == <<modeBound, memmapBound>>
vars == <<cfg, pc, events, devlog, nalloc, loopvars, threadvars, datavars,
          stream_info, bindvars, sinkvars, hist>>

\* ------------------------------------------------------------------ helpers
Zeros(n) == [i \in 1..n |-> 0]
Slots == 0..(cfg.N_threads - 1)
Divides(p, b) == b % p = 0

\* The samples held by a buffer whose content is fill number k (0: zeros).
Samples(k, b) == [i \in 1..b |-> IF k = 0 THEN 0 ELSE (k - 1) * b + i]

\* np.sum(buffer.reshape(N, p), axis=0)[col], rows 1..N
SumRows(buf, p, col) ==
    LET N == Len(buf) \div p
        RECURSIVE Go(_)
        Go(r) == IF r > N THEN 0 ELSE buf[(r - 1) * p + col] + Go(r + 1)
    IN Go(1)

\* The arguments the caller may pass to stream(), and the number of transfers
\* followed in the run (cap).
Configs ==
    LET sizes == {[b |-> b, p |-> p] : b \in 1..MaxBufLen, p \in 1..MaxBufLen}
        ok == {s \in sizes : Divides(s.p, s.b)}
    IN  {[mode |-> "save", N_threads |-> m, b |-> b, p |-> 1, L |-> l, u |-> 1, xlen |-> l, cap |-> MaxLoops] :
            m \in 1..MaxThreads, b \in 1..MaxBufLen, l \in 1..MaxSaveLen}
        \cup
        {[mode |-> "save average", N_threads |-> m, b |-> s.b, p |-> s.p, L |-> l, u |-> 1, xlen |-> l, cap |-> MaxLoops] :
            m \in 1..MaxThreads, s \in ok, l \in 1..MaxSaveLen}
        \cup
        {[mode |-> "average", N_threads |-> m, b |-> s.b, p |-> s.p, L |-> 0, u |-> u, xlen |-> s.p, cap |-> MaxLoops] :
            m \in 1..MaxThreads, s \in ok, u \in 1..MaxUpdate}
        \cup
        {[mode |-> "pass", N_threads |-> m, b |-> b, p |-> 1, L |-> 0, u |-> u, xlen |-> 1, cap |-> MaxLoops] :
            m \in 1..MaxThreads, b \in 1..MaxBufLen, u \in 1..MaxUpdate}

\* Arguments of the long runs: one sample per buffer, every N_threads below
\* the number of streaming buffers, a mode whose threads never set the stop
\* signal and a save mode whose first thread sets it.
DeepConfigs ==
    {[mode |-> "pass", N_threads |-> m, b |-> 1, p |-> 1, L |-> 0, u |-> 1, xlen |-> 1, cap |-> MaxDeepLoops] :
        m \in 1..(NBuffers - 1)}
    \cup
    {[mode |-> "save", N_threads |-> m, b |-> 1, p |-> 1, L |-> 1, u |-> 1, xlen |-> 1, cap |-> MaxDeepLoops] :
        m \in 1..(NBuffers - 1)}

\* Arguments of the unattended save runs: "save" with one sample per buffer,
\* N_threads below the number of streaming buffers and a target length such
\* that MaxDeepLoops transfers are more than the run can use (a run of L
\* buffers with M threads issues at most L + M + 1 transfers).
AutoConfigs ==
    LET all == {[mode |-> "save", N_threads |-> m, b |-> 1, p |-> 1, L |-> l, u |-> 1,
                 xlen |-> l, cap |-> MaxDeepLoops] :
                    m \in 1..(NBuffers - 1), l \in 1..MaxSaveLen}
    IN  {c \in all : c.L + c.N_threads + 1 < MaxDeepLoops}

\* A thread object: where it is in DoAnalysis (st), its loop_count argument,
\* whether its mp_arrays argument holds the sink (arr), the fill that the
\* work buffer held when it was created (wb), the fill it read (read, -1:
\* none, -2: a mix of two fills) and how it ended (out).
NoThread == [st |-> "none", lc |-> 0, arr |-> FALSE, wb |-> 0, read |-> -1, out |-> ""]

\* acq = PyGage.GetAcquisitionConfig(handle): the acquisition configuration the
\* device reports (segment size in samples, masked mode, segment count).
AcqConfig == [SegmentSize |-> 4, Mode |-> 1, SegmentCount |-> 2]

\* stream_info before the StreamInfo instance is constructed
NoStreamInfo == [SegmentSize |-> 0, BytesToEndSegment |-> 0, Segment |-> 0,
                 SegmentCountDown |-> 0]

\* stream_info = StreamInfo(); stream_info.SegmentSize = segment_size_in_bytes;
\* .BytesToEndSegment = segment_size_in_bytes; .Segment = 1;
\* .SegmentCountDown = acq["SegmentCount"]
NewStreamInfo ==
    LET data_in_segment_samples == AcqConfig.SegmentSize * AcqConfig.Mode
        segment_size_in_bytes == data_in_segment_samples * SampleSize
    IN  [SegmentSize |-> segment_size_in_bytes,
         BytesToEndSegment |-> segment_size_in_bytes,
         Segment |-> 1,
         SegmentCountDown |-> AcqConfig.SegmentCount]

Hist0 == [reachedLoop |-> FALSE,  \* StartCapture succeeded
          setupFailure |-> "",    \* the device call of the setup that failed
          transfers |-> 0,        \* TransferStreamingData calls issued
          fills |-> 0,            \* transfers that delivered data
          lastXfer |-> "",        \* status of the last TransferStreamingData
          statusFatal |-> FALSE,  \* FIFO full or a non-tuple transfer status
          fatalAt |-> 0,          \* transfers issued when that status came
          raced |-> FALSE,        \* a thread read other data than it was handed
          xfersAfterStop |-> 0,   \* transfers issued in the loop while stop was set
          stopSeenAt |-> -1,      \* transfers issued when the loop first read stop as set
          submitted |-> <<>>,     \* loop counts of the DoAnalysis threads started
          stopSetCalls |-> 0,     \* stream_stop_event.set() calls made by DoAnalysis
          drainDone |-> FALSE,    \* the final DoAnalysis thread was joined
          fileSaved |-> FALSE]    \* np.save was called

\* The state in which stream() is entered with the arguments cfg.
StreamStart ==
    /\ pc = "get_handle"
    /\ stream_ready_event = FALSE
    /\ stream_start_event = FALSE
    /\ stream_stop_event = FALSE
    /\ stream_error_event = FALSE
    /\ stream_exit_event = FALSE
    /\ devlog = <<>>
    /\ nalloc = 0
    /\ done = FALSE
    /\ stream_completed_success = FALSE
    /\ work_buffer_active = FALSE
    /\ loop_count = 0
    /\ buffer_count = 0
    /\ thread_count = 0
    /\ work_threads = [s \in 0..(cfg.N_threads - 1) |-> NoThread]
    /\ active_threads = [s \in 0..(cfg.N_threads - 1) |-> FALSE]
    /\ buffer_list = [i \in 0..(NBuffers - 1) |-> 0]
    /\ WorkBuffer = 0
    /\ g_cardTotalData = 0
    /\ stream_info = NoStreamInfo
    /\ modeBound = FALSE
    /\ memmapBound = FALSE
    /\ X = IF cfg.mode \in SaveModes THEN <<>> ELSE Zeros(cfg.xlen)
    /\ mp_total_data = 0
    /\ mp_loop_count = 0
    /\ hist = Hist0

Init ==
    /\ cfg \in Configs
    /\ StreamStart

\* ------------------------------------------------------------- device setup
nonsetup == <<loopvars, threadvars, datavars, bindvars, sinkvars>>

FreeBuffers(n) == [i \in 1..n |-> <<"FreeStreamingBuffer", i>>]
FreeSystem == <<"FreeSystem", 0>>
AbortCapture == <<"AbortCapture", 0>>

\* initialize_stream: get_handle(); a negative handle makes initialize_stream
\* return None, which stream() fails to unpack.
GetHandle ==
    /\ pc = "get_handle"
    /\ \E ok \in BOOLEAN :
         IF ok THEN /\ pc' = "system_info"
                    /\ hist' = hist
               ELSE /\ pc' = "TypeError"
                    /\ hist' = [hist EXCEPT !.setupFailure = "Initialize"]
    /\ UNCHANGED <<cfg, stream_info, events, devlog, nalloc, nonsetup>>

\* initialize_stream: GetSystemInfo
GetSystemInfo ==
    /\ pc = "system_info"
    /\ \E ok \in BOOLEAN :
         IF ok THEN /\ pc' = "configure"
                    /\ UNCHANGED <<devlog, hist>>
               ELSE /\ pc' = "TypeError"
                    /\ devlog' = Append(devlog, FreeSystem)
                    /\ hist' = [hist EXCEPT !.setupFailure = "GetSystemInfo"]
    /\ UNCHANGED <<cfg, stream_info, events, nalloc, nonsetup>>

\* initialize_stream: configure_system returns a 3-tuple, or a bare status
\* when a Set...Config call fails ("int": the unpacking at line 260 raises),
\* or a 3-tuple whose status is negative ("neg").
ConfigureSystem ==
    /\ pc = "configure"
    /\ \E r \in {"ok", "int", "neg"} :
         CASE r = "ok" -> /\ pc' = "expert"
                          /\ UNCHANGED <<devlog, hist>>
           [] r = "int" -> /\ pc' = "TypeError"
                           /\ devlog' = devlog
                           /\ hist' = [hist EXCEPT !.setupFailure = "configure_system"]
           [] r = "neg" -> /\ pc' = "TypeError"
                           /\ devlog' = Append(devlog, FreeSystem)
                           /\ hist' = [hist EXCEPT !.setupFailure = "configure_system"]
    /\ UNCHANGED <<cfg, stream_info, events, nalloc, nonsetup>>

\* initialize_stream: check_for_expert_stream
CheckForExpertStream ==
    /\ pc = "expert"
    /\ \E ok \in BOOLEAN :
         IF ok THEN /\ pc' = "commit"
                    /\ UNCHANGED <<devlog, hist>>
               ELSE /\ pc' = "SystemExit"
                    /\ devlog' = Append(devlog, FreeSystem)
                    /\ hist' = [hist EXCEPT !.setupFailure = "check_for_expert_stream"]
    /\ UNCHANGED <<cfg, stream_info, events, nalloc, nonsetup>>

\* initialize_stream: Commit
Commit ==
    /\ pc = "commit"
    /\ \E ok \in BOOLEAN :
         IF ok THEN /\ pc' = "tick_freq"
                    /\ UNCHANGED <<devlog, hist>>
               ELSE /\ pc' = "TypeError"
                    /\ devlog' = Append(devlog, FreeSystem)
                    /\ hist' = [hist EXCEPT !.setupFailure = "Commit"]
    /\ UNCHANGED <<cfg, stream_info, events, nalloc, nonsetup>>

\* The failure path of a device call made by stream() itself: release the
\* n buffers obtained so far, free the system, set the error signal, leave.
SetupFails(call, n, how) ==
    /\ devlog' = devlog \o FreeBuffers(n) \o <<FreeSystem>>
    /\ stream_error_event' = TRUE
    /\ hist' = [hist EXCEPT !.setupFailure = call]
    /\ pc' = how

GetTimeStampFrequency ==
    /\ pc = "tick_freq"
    /\ \E ok \in BOOLEAN :
         IF ok THEN /\ pc' = "total_size"
                    /\ UNCHANGED <<devlog, hist, stream_error_event>>
               ELSE SetupFails("GetTimeStampFrequency", 0, "SystemExit")
    /\ UNCHANGED <<cfg, stream_info, stream_ready_event, stream_start_event, stream_stop_event,
                   stream_exit_event, nalloc, nonsetup>>

\* total_samples < 0 and total_samples != acq_config["SegmentSize"]
GetStreamTotalDataSizeInBytes ==
    /\ pc = "total_size"
    /\ \E total_samples \in {-2, -1, 8}, SegmentSize \in {-1, 4} :
         IF total_samples < 0 /\ total_samples # SegmentSize
         THEN SetupFails("GetStreamTotalDataSizeInBytes", 0, "SystemExit")
         ELSE /\ pc' = "alloc"
              /\ UNCHANGED <<devlog, hist, stream_error_event>>
    /\ UNCHANGED <<cfg, stream_info, stream_ready_event, stream_start_event, stream_stop_event,
                   stream_exit_event, nalloc, nonsetup>>

\* buffer1 .. buffer4 = GetStreamingBuffer(...)
GetStreamingBuffer ==
    /\ pc = "alloc"
    /\ \E ok \in BOOLEAN :
         IF ok THEN /\ nalloc' = nalloc + 1
                    /\ pc' = IF nalloc + 1 = NBuffers THEN "tail_size" ELSE "alloc"
                    /\ UNCHANGED <<devlog, hist, stream_error_event>>
               ELSE /\ SetupFails("GetStreamingBuffer", nalloc, "returned")
                    /\ nalloc' = nalloc
    /\ UNCHANGED <<cfg, stream_info, stream_ready_event, stream_start_event, stream_stop_event,
                   stream_exit_event, nonsetup>>

GetSegmentTailSizeInBytes ==
    /\ pc = "tail_size"
    /\ \E ok \in BOOLEAN :
         IF ok THEN /\ pc' = "set_ready"
                    /\ stream_info' = NewStreamInfo
                    /\ UNCHANGED <<devlog, hist, stream_error_event>>
               ELSE /\ SetupFails("GetSegmentTailSizeInBytes", NBuffers, "returned")
                    /\ stream_info' = stream_info
    /\ UNCHANGED <<cfg, stream_ready_event, stream_start_event, stream_stop_event,
                   stream_exit_event, nalloc, nonsetup>>

\* stream_ready_event.set()
SetReady ==
    /\ pc = "set_ready"
    /\ stream_ready_event' = TRUE
    /\ pc' = "start_capture"
    /\ UNCHANGED <<cfg, stream_info, stream_start_event, stream_stop_event,
                   stream_error_event, stream_exit_event, devlog, nalloc, nonsetup,
                   hist>>

\* (mutant) the started signal is set before the status of StartCapture is tested
StartCapture_StartedFirst ==
    /\ pc = "start_capture"
    /\ stream_start_event' = TRUE
    /\ \E ok \in BOOLEAN :
         IF ok THEN /\ pc' = "loop_test"
                    /\ hist' = [hist EXCEPT !.reachedLoop = TRUE]
                    /\ UNCHANGED <<devlog, stream_error_event>>
               ELSE SetupFails("StartCapture", NBuffers, "SystemExit")
    /\ UNCHANGED <<cfg, stream_info, stream_ready_event, stream_stop_event,
                   stream_exit_event, nalloc, nonsetup>>

\* status = PyGage.StartCapture(handle); stream_start_event.set()
StartCapture ==
    /\ pc = "start_capture"
    /\ \E ok \in BOOLEAN :
         IF ok THEN /\ stream_start_event' = TRUE
                    /\ pc' = "loop_test"
                    /\ hist' = [hist EXCEPT !.reachedLoop = TRUE]
                    /\ UNCHANGED <<devlog, stream_error_event>>
               ELSE /\ SetupFails("StartCapture", NBuffers, "SystemExit")
                    /\ stream_start_event' = stream_start_event
    /\ UNCHANGED <<cfg, stream_info, stream_ready_event, stream_stop_event,
                   stream_exit_event, nalloc, nonsetup>>

\* ---------------------------------------------------------------- DoAnalysis
\* step of the save modes: buffer.size for "save", ppifg for "save average"
Step(c) == IF c.mode = "save" THEN c.b ELSE c.p

\* (mutant) DoAnalysis never sets the stop signal
StopSets_Never(lc, c) == 0

\* The stop-condition tests of the save modes (lines 691-696 and 710-716):
\* the number of stream_stop_event.set() calls they make, and whether the
\* call returns there ("stop flag already set, skipping this one").
StopSets(lc, c) ==
    (IF lc * Step(c) = c.L THEN 1 ELSE 0) + (IF lc * Step(c) > c.L THEN 1 ELSE 0)

Skips(lc, c) == lc * Step(c) > c.L

\* What the call writes: the column sums of the buffer reshaped to
\* (N, ppifg) in the two averaging modes, the raw buffer otherwise.
Values(buf, c) ==
    IF c.mode \in {"average", "save average"}
    THEN [col \in 1..c.p |-> SumRows(buf, c.p, col)]
    ELSE buf

\* X[start:stop] = values with start = (lc-1)*n, stop = lc*n.  With lc = 0
\* the slice X[-n:0] is empty: numpy broadcasts one value into it and raises
\* for more than one.
SliceAssign(sink, lc, values) ==
    LET n == Len(values)
        start == (lc - 1) * n
    IN  IF lc = 0
        THEN [X |-> sink, wrote |-> FALSE, raised |-> n # 1]
        ELSE [X |-> [i \in 1..Len(sink) |->
                        IF i > start /\ i <= start + n THEN values[i - start]
                                                        ELSE sink[i]],
              wrote |-> TRUE, raised |-> FALSE]

\* (mutant) the average and pass modes write on every call, whatever
\* loop_count_update
DoAnalysisWrite_EveryCall(lc, buf, sink, arr, c) ==
    IF c.mode \in SaveModes
    THEN IF ~arr THEN [X |-> sink, wrote |-> FALSE, raised |-> TRUE]
                 ELSE SliceAssign(sink, lc, Values(buf, c))
    ELSE [X |-> [i \in 1..Len(sink) |-> Values(buf, c)[i]],
          wrote |-> TRUE, raised |-> FALSE]

\* The part of DoAnalysis after the stop-condition tests: the write into the
\* sink.  arr tells whether mp_arrays holds the sink: (X,) = mp_arrays raises
\* on the empty default list.
DoAnalysisWrite(lc, buf, sink, arr, c) ==
    IF c.mode \in SaveModes
    THEN IF ~arr THEN [X |-> sink, wrote |-> FALSE, raised |-> TRUE]
                 ELSE SliceAssign(sink, lc, Values(buf, c))
    ELSE IF lc % c.u = 0
         THEN [X |-> [i \in 1..Len(sink) |-> Values(buf, c)[i]],
               wrote |-> TRUE, raised |-> FALSE]
         ELSE [X |-> sink, wrote |-> FALSE, raised |-> FALSE]

\* A started thread runs DoAnalysis in two steps, at any moments before it is
\* joined.  First the stop-condition tests of the save modes.
ThreadStopCheck(s) ==
    /\ work_threads[s].st = "stopcheck"
    /\ LET t == work_threads[s]
       IN  /\ stream_stop_event' = (stream_stop_event \/ StopSets(t.lc, cfg) > 0)
           /\ hist' = [hist EXCEPT !.stopSetCalls = @ + StopSets(t.lc, cfg)]
           /\ work_threads' = [work_threads EXCEPT ![s] =
                  IF Skips(t.lc, cfg)
                  THEN [t EXCEPT !.st = "finished", !.out = "skipped"]
                  ELSE [t EXCEPT !.st = "update"]]
    /\ UNCHANGED <<cfg, stream_info, pc, stream_ready_event, stream_start_event, stream_error_event,
                   stream_exit_event, devlog, nalloc, loopvars, active_threads,
                   datavars, bindvars, sinkvars>>

\* buffer = np.frombuffer(workbuffer, np.int16): the thread holds a reference
\* to the work buffer, not a copy.  When the loop has copied a new buffer into
\* it since the thread was created (old: the fill it held then), the copy and
\* the thread's read are unsynchronised: each sample read is the old or the
\* new one.
ReadOutcomes(old) ==
    IF WorkBuffer = old
    THEN {Samples(WorkBuffer, cfg.b)}
    ELSE {[i \in 1..cfg.b |-> IF i \in S THEN Samples(old, cfg.b)[i]
                                        ELSE Samples(WorkBuffer, cfg.b)[i]] :
             S \in SUBSET (1..cfg.b)}

\* The fill a thread has read: its number, or -2 for a mix of two fills.
FillOf(buf, old) ==
    IF buf = Samples(WorkBuffer, cfg.b) THEN WorkBuffer
    ELSE IF buf = Samples(old, cfg.b) THEN old ELSE -2

\* Then the write into the sink and, as the last statements, the two shared
\* counters.  The thread reads the work buffer and g_cardTotalData as they
\* are at this moment.
ThreadUpdate(s) ==
    /\ work_threads[s].st = "update"
    /\ \E buf \in ReadOutcomes(work_threads[s].wb) :
         LET t == work_threads[s]
             r == DoAnalysisWrite(t.lc, buf, X, t.arr, cfg)
         IN  /\ X' = r.X
             /\ mp_total_data' = IF r.raised THEN mp_total_data ELSE g_cardTotalData
             /\ mp_loop_count' = IF r.raised THEN mp_loop_count ELSE t.lc
             /\ work_threads' = [work_threads EXCEPT ![s] =
                    [t EXCEPT !.st = "finished",
                              !.out = IF r.raised THEN "raised" ELSE "returned",
                              !.read = IF r.wrote THEN FillOf(buf, t.wb) ELSE -1]]
             /\ hist' = [hist EXCEPT !.raced = @ \/ (r.wrote /\ FillOf(buf, t.wb) # t.wb)]
    /\ UNCHANGED <<cfg, stream_info, pc, events, devlog, nalloc, loopvars, active_threads,
                   datavars, bindvars>>

DoAnalysisStopCheck == \E s \in Slots : ThreadStopCheck(s)

DoAnalysisUpdate == \E s \in Slots : ThreadUpdate(s)

\* ------------------------------------------------------------ the main loop
Terminal == {"returned", "SystemExit", "TypeError", "NameError"}

\* threading.Thread(target=DoAnalysis, args=(loop_count, ..., mp_arrays, ...))
NewThread(bound) ==
    [st |-> IF cfg.mode \in SaveModes THEN "stopcheck" ELSE "update",
     lc |-> loop_count,
     arr |-> (cfg.mode \notin SaveModes \/ bound),
     wb |-> WorkBuffer, read |-> -1, out |-> ""]

\* (mutant) a slot is reused without joining its thread
Joinable_NoJoin(s) == TRUE

\* work_threads[thread_count].join() returns once that thread has finished
Joinable(s) == active_threads[s] => work_threads[s].st = "finished"

\* while not done and not stream_completed_success
LoopTest ==
    /\ pc = "loop_test"
    /\ pc' = IF ~done /\ ~stream_completed_success THEN "transfer" ELSE "teardown"
    /\ UNCHANGED <<cfg, stream_info, events, devlog, nalloc, loopvars, threadvars, datavars,
                   bindvars, sinkvars, hist>>

\* The status of a TransferStreamingData call on which the loop breaks.
\* (mutant) every negative status breaks the loop
BreaksLoop_AnyNegative(status) == status # "ok"

\* if status < 0: if status == CS_STM_COMPLETED: pass; else: break
BreaksLoop(status) == status = "error"

\* status = PyGage.TransferStreamingData(...); break on a negative status
\* other than CS_STM_COMPLETED.  Once the device has answered CS_STM_COMPLETED
\* it has no more data: no later transfer succeeds.
TransferStreamingData ==
    /\ pc = "transfer"
    /\ loop_count < cfg.cap
    /\ \E status \in {"ok", "CS_STM_COMPLETED", "error"} :
         /\ status = "ok" => hist.lastXfer # "CS_STM_COMPLETED"
         /\ pc' = IF BreaksLoop(status) THEN "teardown" ELSE "dispatch"
         /\ hist' = [hist EXCEPT
                !.transfers = @ + 1,
                !.lastXfer = status,
                !.xfersAfterStop = IF stream_stop_event THEN @ + 1 ELSE @]
    /\ UNCHANGED <<cfg, stream_info, events, devlog, nalloc, loopvars, threadvars, datavars,
                   bindvars, sinkvars>>

\* if work_buffer_active: join the slot, allocate the sink at loop count 1 in
\* the save modes, start DoAnalysis on the work buffer
Dispatch ==
    /\ pc = "dispatch"
    /\ IF ~work_buffer_active
       THEN /\ pc' = "status"
            /\ UNCHANGED <<threadvars, bindvars, X, done, stream_error_event, hist>>
       ELSE /\ Joinable(thread_count)
            /\ modeBound' = TRUE
            /\ \E allocated \in BOOLEAN :
                 IF cfg.mode \in SaveModes /\ loop_count = 1 /\ ~allocated
                 THEN \* except: stream_error_event.set(); done = True; continue
                      /\ stream_error_event' = TRUE
                      /\ done' = TRUE
                      /\ pc' = "loop_test"
                      /\ active_threads' = [active_threads EXCEPT ![thread_count] = FALSE]
                      /\ UNCHANGED <<work_threads, memmapBound, X, hist>>
                 ELSE /\ allocated
                      /\ IF cfg.mode \in SaveModes /\ loop_count = 1
                         THEN memmapBound' = TRUE /\ X' = Zeros(cfg.L)
                         ELSE UNCHANGED <<memmapBound, X>>
                      /\ work_threads' = [work_threads EXCEPT
                                              ![thread_count] = NewThread(memmapBound')]
                      /\ active_threads' = [active_threads EXCEPT ![thread_count] = TRUE]
                      /\ hist' = [hist EXCEPT !.submitted = Append(@, loop_count)]
                      /\ pc' = "status"
                      /\ UNCHANGED <<done, stream_error_event>>
    /\ UNCHANGED <<cfg, stream_info, stream_ready_event, stream_start_event, stream_stop_event,
                   stream_exit_event, devlog, nalloc, stream_completed_success,
                   work_buffer_active, loop_count, buffer_count, thread_count,
                   datavars, mp_total_data, mp_loop_count>>

\* (mutant) the FIFO-full flag is not tested
FifoFull_Ignored(flag) == FALSE

\* STM_TRANSFER_ERROR_FIFOFULL & p[0]
FifoFull(flag) == flag

\* p = PyGage.GetStreamingTransferStatus(...): a tuple (flags, bytes,
\* completed), or an error code.  A transfer that was started delivers its
\* data into the buffer by the time the status is a tuple; after a
\* CS_STM_COMPLETED status no new data arrives.
GetStreamingTransferStatus ==
    /\ pc = "status"
    /\ \E tuple \in BOOLEAN, fifofull \in BOOLEAN, completed \in BOOLEAN :
         IF tuple
         THEN LET delivered == hist.lastXfer = "ok"
              IN  /\ g_cardTotalData' = g_cardTotalData +
                        (IF delivered THEN cfg.b * SampleSize ELSE 0)
                  /\ stream_completed_success' = completed
                  /\ done' = (done \/ FifoFull(fifofull))
                  /\ stream_error_event' = (stream_error_event \/ fifofull)
                  /\ buffer_list' = IF delivered
                                    THEN [buffer_list EXCEPT ![buffer_count] = hist.fills + 1]
                                    ELSE buffer_list
                  /\ hist' = [hist EXCEPT
                         !.fills = IF delivered THEN @ + 1 ELSE @,
                         !.statusFatal = @ \/ fifofull,
                         !.fatalAt = IF fifofull THEN hist.transfers ELSE @]
         ELSE /\ ~fifofull /\ ~completed
              /\ done' = TRUE
              /\ stream_error_event' = TRUE
              /\ hist' = [hist EXCEPT !.statusFatal = TRUE,
                                       !.fatalAt = hist.transfers]
              /\ UNCHANGED <<g_cardTotalData, stream_completed_success, buffer_list>>
    /\ pc' = "copy"
    /\ UNCHANGED <<cfg, stream_info, stream_ready_event, stream_start_event, stream_stop_event,
                   stream_exit_event, devlog, nalloc, work_buffer_active, loop_count,
                   buffer_count, thread_count, threadvars, WorkBuffer, bindvars,
                   sinkvars>>

\* (mutant) the thread slot is advanced one too far
CopyToWorkBuffer_NextSlot ==
    /\ pc = "copy"
    /\ WorkBuffer' = buffer_list[buffer_count]
    /\ loop_count' = loop_count + 1
    /\ buffer_count' = (loop_count + 1) % NBuffers
    /\ thread_count' = (loop_count + 1) % cfg.N_threads
    /\ work_buffer_active' = TRUE
    /\ pc' = "stop_check"
    /\ UNCHANGED <<cfg, stream_info, events, devlog, nalloc, done, stream_completed_success,
                   threadvars, buffer_list, g_cardTotalData, bindvars, sinkvars, hist>>

\* stream_info.WorkBuffer[:] = buffer[:]; loop_count += 1; ...
CopyToWorkBuffer ==
    /\ pc = "copy"
    /\ WorkBuffer' = buffer_list[buffer_count]
    /\ loop_count' = loop_count + 1
    /\ buffer_count' = (loop_count + 1) % NBuffers
    /\ thread_count' = loop_count % cfg.N_threads
    /\ work_buffer_active' = TRUE
    /\ pc' = "stop_check"
    /\ UNCHANGED <<cfg, stream_info, events, devlog, nalloc, done, stream_completed_success,
                   threadvars, buffer_list, g_cardTotalData, bindvars, sinkvars, hist>>

\* (mutant) the loop does not look at the stop signal
StopCheck_NotRead ==
    /\ pc = "stop_check"
    /\ pc' = "loop_test"
    /\ UNCHANGED <<cfg, stream_info, events, devlog, nalloc, loopvars, threadvars, datavars,
                   bindvars, sinkvars, hist>>

\* if stream_stop_event.is_set(): done = True
StopCheck ==
    /\ pc = "stop_check"
    /\ done' = (done \/ stream_stop_event)
    /\ hist' = [hist EXCEPT !.stopSeenAt = IF stream_stop_event /\ @ = -1
                                           THEN hist.transfers ELSE @]
    /\ pc' = "loop_test"
    /\ UNCHANGED <<cfg, stream_info, events, devlog, nalloc, stream_completed_success,
                   work_buffer_active, loop_count, buffer_count, thread_count,
                   threadvars, datavars, bindvars, sinkvars>>

\* (mutant) the card is freed before the buffers are released
Teardown_FreeFirst ==
    /\ pc = "teardown"
    /\ devlog' = devlog \o <<FreeSystem>> \o FreeBuffers(NBuffers) \o <<AbortCapture>>
    /\ hist' = [hist EXCEPT !.xfersAfterStop = 0]
    /\ pc' = "drain_start"
    /\ UNCHANGED <<cfg, stream_info, events, nalloc, loopvars, threadvars, datavars, bindvars,
                   sinkvars>>

\* exiting loop: free the streaming buffers, abort the capture, free the card
\* (the count of transfers issued under a set stop signal is kept while the
\* loop runs)
Teardown ==
    /\ pc = "teardown"
    /\ devlog' = devlog \o FreeBuffers(NBuffers) \o <<AbortCapture, FreeSystem>>
    /\ hist' = [hist EXCEPT !.xfersAfterStop = 0]
    /\ pc' = "drain_start"
    /\ UNCHANGED <<cfg, stream_info, events, nalloc, loopvars, threadvars, datavars, bindvars,
                   sinkvars>>

\* join the slot if it is active, then start DoAnalysis on the last buffer
DrainStart ==
    /\ pc = "drain_start"
    /\ Joinable(thread_count)
    /\ work_threads' = [work_threads EXCEPT ![thread_count] = NewThread(memmapBound)]
    /\ hist' = [hist EXCEPT !.submitted = Append(@, loop_count)]
    /\ pc' = "drain_join"
    /\ UNCHANGED <<cfg, stream_info, events, devlog, nalloc, loopvars, active_threads, datavars,
                   bindvars, sinkvars>>

\* (mutant) the final thread is not joined
DrainJoin_NotJoined ==
    /\ pc = "drain_join"
    /\ hist' = [hist EXCEPT !.drainDone = TRUE]
    /\ pc' = "save"
    /\ UNCHANGED <<cfg, stream_info, events, devlog, nalloc, loopvars, threadvars, datavars,
                   bindvars, sinkvars>>

\* work_threads[thread_count].join() of the final thread
DrainJoin ==
    /\ pc = "drain_join"
    /\ work_threads[thread_count].st = "finished"
    /\ hist' = [hist EXCEPT !.drainDone = TRUE]
    /\ pc' = "save"
    /\ UNCHANGED <<cfg, stream_info, events, devlog, nalloc, loopvars, threadvars, datavars,
                   bindvars, sinkvars>>

\* if mode == "save" or mode == "save average": np.save(..., memmap[:end]).
\* `mode` and `memmap` are local names that the loop may never have assigned.
SaveResult ==
    /\ pc = "save"
    /\ IF ~modeBound
       THEN pc' = "NameError" /\ hist' = hist
       ELSE IF cfg.mode \in SaveModes
            THEN IF ~memmapBound
                 THEN pc' = "NameError" /\ hist' = hist
                 ELSE pc' = "exit" /\ hist' = [hist EXCEPT !.fileSaved = TRUE]
            ELSE pc' = "exit" /\ hist' = hist
    /\ UNCHANGED <<cfg, stream_info, events, devlog, nalloc, loopvars, threadvars, datavars,
                   bindvars, sinkvars>>

\* stream_exit_event.set()
SetExit ==
    /\ pc = "exit"
    /\ stream_exit_event' = TRUE
    /\ pc' = "returned"
    /\ UNCHANGED <<cfg, stream_info, stream_ready_event, stream_start_event, stream_stop_event,
                   stream_error_event, devlog, nalloc, loopvars, threadvars, datavars,
                   bindvars, sinkvars, hist>>

\* the supervising process sets the stop signal
SupervisorStop ==
    /\ pc \notin Terminal
    /\ ~stream_stop_event
    /\ stream_stop_event' = TRUE
    /\ UNCHANGED <<cfg, stream_info, pc, stream_ready_event, stream_start_event, stream_error_event,
                   stream_exit_event, devlog, nalloc, loopvars, threadvars, datavars,
                   bindvars, sinkvars, hist>>

\* the supervising process sets the error signal
SupervisorError ==
    /\ pc \notin Terminal
    /\ ~stream_error_event
    /\ stream_error_event' = TRUE
    /\ UNCHANGED <<cfg, stream_info, pc, stream_ready_event, stream_start_event,
                   stream_stop_event, stream_exit_event, devlog, nalloc, loopvars,
                   threadvars, datavars, bindvars, sinkvars, hist>>

Next ==
    \/ GetHandle
    \/ GetSystemInfo
    \/ ConfigureSystem
    \/ CheckForExpertStream
    \/ Commit
    \/ GetTimeStampFrequency
    \/ GetStreamTotalDataSizeInBytes
    \/ GetStreamingBuffer
    \/ GetSegmentTailSizeInBytes
    \/ SetReady
    \/ StartCapture
    \/ LoopTest
    \/ TransferStreamingData
    \/ Dispatch
    \/ GetStreamingTransferStatus
    \/ CopyToWorkBuffer
    \/ StopCheck
    \/ Teardown
    \/ DrainStart
    \/ DrainJoin
    \/ SaveResult
    \/ SetExit
    \/ DoAnalysisStopCheck
    \/ DoAnalysisUpdate
    \/ SupervisorStop

Spec == Init /\ [][Next]_vars

\* The pipeline with a supervisor that may also set the error signal.
NextExt ==
    \/ Next
    \/ SupervisorError

SpecExt == Init /\ [][NextExt]_vars

\* The pipeline on the long runs.
InitDeep ==
    /\ cfg \in DeepConfigs
    /\ StreamStart

SpecDeep == InitDeep /\ [][Next]_vars

\* The pipeline left alone: no supervisor sets the stop signal.  Every
\* runnable thread, the loop's and the DoAnalysis ones, is eventually
\* scheduled, and every device call returns.
InitAuto ==
    /\ cfg \in AutoConfigs
    /\ StreamStart

NextAuto ==
    \/ GetHandle
    \/ GetSystemInfo
    \/ ConfigureSystem
    \/ CheckForExpertStream
    \/ Commit
    \/ GetTimeStampFrequency
    \/ GetStreamTotalDataSizeInBytes
    \/ GetStreamingBuffer
    \/ GetSegmentTailSizeInBytes
    \/ SetReady
    \/ StartCapture
    \/ LoopTest
    \/ TransferStreamingData
    \/ Dispatch
    \/ GetStreamingTransferStatus
    \/ CopyToWorkBuffer
    \/ StopCheck
    \/ Teardown
    \/ DrainStart
    \/ DrainJoin
    \/ SaveResult
    \/ SetExit
    \/ DoAnalysisStopCheck
    \/ DoAnalysisUpdate

SpecAuto == InitAuto /\ [][NextAuto]_vars /\ WF_vars(NextAuto)

\* ------------------------------------------------------------------ claims
AfterTeardown == {"drain_start", "drain_join", "save", "exit", "returned", "NameError"}
LoopTeardown == FreeBuffers(NBuffers) \o <<AbortCapture, FreeSystem>>
FinalThread == work_threads[thread_count]
AllocFailed == cfg.mode \in SaveModes /\ modeBound /\ ~memmapBound
AllCallsDone ==
    /\ hist.drainDone
    /\ \A s \in Slots : work_threads[s].st \in {"none", "finished"}
Last(q) == q[Len(q)]

\* C1: every run that reached the transfer loop ends with the error signal
\* or the exit signal set.
C1_EndsWithErrorOrExit ==
    (hist.reachedLoop /\ pc \in Terminal) => (stream_error_event \/ stream_exit_event)

\* C2: the exit signal is set only after the final DoAnalysis call on the
\* last buffer has completed and, in the save modes, after the result file
\* was written.
C2_ExitAfterDrainAndSave ==
    stream_exit_event =>
        /\ FinalThread.st = "finished"
        /\ FinalThread.lc = loop_count
        /\ hist.drainDone
        /\ cfg.mode \in SaveModes => hist.fileSaved

C2_Witness ==
    /\ stream_exit_event
    /\ cfg.mode = "save"
    /\ cfg.N_threads = 2
    /\ hist.fileSaved
    /\ loop_count = 2

\* C3: in "save" mode, once the stop condition has fired and all DoAnalysis
\* calls have completed, the sink holds exactly the first L transferred
\* samples (in a run without errors where every transfer delivered its data
\* and no call read a changed work buffer).
C3_SinkHoldsFirstL ==
    (/\ cfg.mode = "save"
     /\ memmapBound
     /\ ~stream_error_event
     /\ hist.stopSetCalls > 0
     /\ AllCallsDone
     /\ hist.fills = loop_count
     /\ ~hist.raced)
    => X = [i \in 1..cfg.L |-> i]

\* C4: in the save modes the DoAnalysis calls raise the stop signal exactly
\* once over a session: the call whose loop count reaches the target raises
\* it and no later call raises it again (target a multiple of the step, run
\* without errors).
C4_StopRaisedOnce ==
    (/\ cfg.mode \in SaveModes
     /\ Divides(Step(cfg), cfg.L)
     /\ ~stream_error_event)
    => hist.stopSetCalls <= 1

\* C5: every DoAnalysis call that returns has set the shared loop-count and
\* cumulative-bytes counters to the current values as its last action.
C5_CountersSetLast ==
    [][\A s \in Slots :
          (/\ work_threads[s].st # "finished"
           /\ work_threads'[s].st = "finished"
           /\ work_threads'[s].out # "raised")
          => (/\ mp_loop_count' = work_threads[s].lc
              /\ mp_total_data' = g_cardTotalData)]_vars

\* C6: when TransferStreamingData returned a negative status other than
\* stream-completed, the error signal is set by the time stream() ends.
C6_TransferErrorSetsError ==
    (hist.lastXfer = "error" /\ pc \in Terminal) => stream_error_event

\* C7: after a device failure during the setup, the error signal is set by
\* the time stream() ends.
C7_SetupFailureSetsError ==
    (hist.setupFailure # "" /\ pc \in Terminal) => stream_error_event

\* C8: once GetStreamingTransferStatus reported FIFO full or an error, the
\* error signal is set, no further transfer is issued, and the loop's
\* cleanup releases each of the 4 buffers exactly once, then aborts the
\* capture, then frees the system.
C8_FatalStatusStopsAndCleansUp ==
    hist.statusFatal =>
        /\ stream_error_event
        /\ done
        /\ hist.transfers = hist.fatalAt
        /\ devlog = IF pc \in AfterTeardown THEN LoopTeardown ELSE <<>>

C8_Witness ==
    /\ hist.statusFatal
    /\ hist.fatalAt = 2
    /\ pc = "returned"
    /\ devlog = LoopTeardown

C10_StopActsAtEndOfIteration ==
    /\ hist.xfersAfterStop <= 1
    /\ hist.stopSeenAt >= 0 =>
           (done /\ stream_stop_event /\ hist.transfers = hist.stopSeenAt
                 /\ loop_count = hist.stopSeenAt)
    /\ done => (hist.statusFatal \/ AllocFailed \/ hist.stopSeenAt >= 0)

C10_Witness ==
    /\ hist.xfersAfterStop = 1
    /\ hist.stopSeenAt = 2
    /\ ~hist.statusFatal
    /\ pc = "teardown"

\* C11: once the error signal is set, by the pipeline or by the supervisor,
\* the loop starts no further iteration with a transfer, the buffers are
\* released and the capture aborted before stream() ends, and the error
\* signal is never cleared.
C11_ErrorStopsTransfers ==
    [][/\ (stream_error_event /\ pc = "loop_test") => pc' # "transfer"
       /\ (stream_error_event /\ hist.reachedLoop /\ pc' \in Terminal)
              => devlog' = LoopTeardown
       /\ stream_error_event => stream_error_event']_vars

\* C12: the lifecycle signals are set in the order ready, started, exit:
\* started is set only when ready is set and StartCapture succeeded, exit is
\* set only when started is set, and no signal is ever cleared.
C12_LifecycleOrder ==
    /\ [](/\ stream_start_event => (stream_ready_event /\ hist.reachedLoop)
          /\ stream_exit_event => stream_start_event)
    /\ [][/\ (~stream_start_event /\ stream_start_event') => stream_ready_event
          /\ (~stream_exit_event /\ stream_exit_event') => stream_start_event
          /\ stream_ready_event => stream_ready_event'
          /\ stream_start_event => stream_start_event'
          /\ stream_stop_event => stream_stop_event'
          /\ stream_error_event => stream_error_event'
          /\ stream_exit_event => stream_exit_event']_vars

C12_Witness ==
    /\ stream_ready_event
    /\ stream_start_event
    /\ stream_exit_event
    /\ pc = "returned"

\* The sum over the rows of fill k (b samples, reshaped to rows of length p)
\* in column col, in closed form: row r holds (k-1)*b + (r-1)*p + col.
ColumnSum(k, b, p, col) ==
    LET N == b \div p
    IN  IF k = 0 THEN 0 ELSE N * ((k - 1) * b + col) + p * ((N * (N - 1)) \div 2)

RECURSIVE ColumnSumOver(_, _, _, _, _)
ColumnSumOver(lo, hi, b, p, col) ==
    IF lo > hi THEN 0
    ELSE ColumnSum(lo, b, p, col) + ColumnSumOver(lo + 1, hi, b, p, col)

\* C13: in "average" mode with update interval 1, after each DoAnalysis call
\* the sink equals the column sums of the rows of one buffer only, the latest
\* one: the buffer the call was handed in the work buffer, or the one copied
\* into the work buffer since (in a run without errors where every transfer
\* delivered data).
C13_AverageOverwritesWithLatest ==
    [][\A s \in Slots :
          (/\ cfg.mode = "average"
           /\ cfg.u = 1
           /\ ~stream_error_event
           /\ hist.fills = loop_count
           /\ work_threads[s].st = "update"
           /\ work_threads'[s].st = "finished")
          => \E k \in {work_threads[s].wb, WorkBuffer} :
                X' = [col \in 1..Len(X) |-> ColumnSum(k, cfg.b, cfg.p, col)]]_vars

\* C14: in "average" mode with update interval u, after a DoAnalysis call
\* that executes the update the sink equals the column sums over the rows of
\* every buffer transferred since the previous executing call, i.e. of the
\* buffers lc-u+1 .. lc (in a run without errors where every transfer
\* delivered its data and the work buffer was not changed under the call).
C14_AverageSumsSinceLastUpdate ==
    [][\A s \in Slots :
          (/\ cfg.mode = "average"
           /\ ~stream_error_event
           /\ work_threads[s].st = "update"
           /\ work_threads'[s].st = "finished"
           /\ work_threads[s].lc >= 1
           /\ work_threads[s].lc % cfg.u = 0
           /\ work_threads[s].wb = work_threads[s].lc
           /\ WorkBuffer = work_threads[s].wb)
          => X' = [col \in 1..Len(X) |->
                      ColumnSumOver(work_threads[s].lc - cfg.u + 1, work_threads[s].lc,
                                    cfg.b, cfg.p, col)]]_vars

\* C15: after the loop processed N >= 1 completed transfers, BytesToEndSegment
\* equals SegmentSize - (total bytes consumed mod SegmentSize), and Segment
\* was incremented and SegmentCountDown decremented once per full segment
\* consumed.
C15_SegmentTrackerFollowsTransfers ==
    (/\ pc = "stop_check"
     /\ hist.fills >= 1
     /\ hist.fills = loop_count)
    => /\ stream_info.BytesToEndSegment =
              stream_info.SegmentSize - (g_cardTotalData % stream_info.SegmentSize)
       /\ stream_info.Segment = 1 + (g_cardTotalData \div stream_info.SegmentSize)
       /\ stream_info.SegmentCountDown =
              AcqConfig.SegmentCount - (g_cardTotalData \div stream_info.SegmentSize)

\* C16: when the allocation of the save-mode sink failed, the error signal is
\* set, the loop is asked to end, no further transfer is issued (the failure
\* comes in the second iteration, after its transfer), and no DoAnalysis task
\* is submitted afterwards (none was submitted before it).
C16_AllocFailureStopsSubmission ==
    AllocFailed =>
        /\ stream_error_event
        /\ done
        /\ hist.transfers = 2
        /\ hist.submitted = <<>>

\* The release of n buffers in the reverse order of their acquisition.
ReverseFreeBuffers(n) == [i \in 1..n |-> <<"FreeStreamingBuffer", n + 1 - i>>]

\* C17: after a failed allocation of buffer 2, 3 or 4, a failed tail-size
\* query or a failed StartCapture, the buffers allocated so far were released
\* in the reverse order of their acquisition, each once, and then the system
\* was freed.
C17_SetupFailureReleasesInReverse ==
    (/\ hist.setupFailure \in {"GetStreamingBuffer", "GetSegmentTailSizeInBytes",
                               "StartCapture"}
     /\ nalloc >= 1)
    => devlog = ReverseFreeBuffers(nalloc) \o <<FreeSystem>>

\* C18: when the result file is written and when the exit signal is set,
\* every DoAnalysis task submitted during the session has run to completion
\* (in a run without errors).
C18_AllTasksDoneBeforeSaveAndExit ==
    (/\ hist.fileSaved \/ stream_exit_event
     /\ ~stream_error_event)
    => \A s \in Slots : work_threads[s].st \in {"none", "finished"}

C20_WorkBufferExclusive ==
    (~stream_error_event /\ hist.lastXfer = "ok" /\ hist.fills = hist.transfers)
    => \A s \in Slots :
          work_threads[s].read # -1 => work_threads[s].read = work_threads[s].wb

\* C21: with fewer thread slots than streaming buffers, when the loop issues
\* a transfer into a streaming buffer that was filled before (the fifth
\* transfer and later ones, every earlier one having delivered its data), the
\* DoAnalysis thread of the fill that the buffer held, four transfers
\* earlier, has finished.
C21_TaskDoneBeforeBufferReuse ==
    [][(/\ cfg.N_threads < NBuffers
        /\ pc = "transfer"
        /\ pc' # pc
        /\ hist.fills = hist.transfers
        /\ hist.transfers >= NBuffers)
       => \A s \in Slots :
             work_threads[s].lc = hist.transfers + 1 - NBuffers
                => work_threads[s].st = "finished"]_vars

\* C22: in "save average" mode every DoAnalysis call raises the stop signal
\* when loop_count * ppifg >= savebuffersize, and a call with
\* loop_count * ppifg <= savebuffersize writes the column sums of its buffer
\* (the fill with its loop count) into X[(loop_count-1)*ppifg : loop_count*ppifg]
\* and leaves the rest of X, and its length, unchanged (in a run without
\* errors where every transfer delivered its data).
C22_SaveAverageSlice ==
    [][\A s \in Slots :
          LET t == work_threads[s]
              start == (t.lc - 1) * cfg.p
          IN  (/\ cfg.mode = "save average"
               /\ ~stream_error_event
               /\ hist.lastXfer = "ok"
               /\ hist.fills = loop_count
               /\ work_threads'[s] # t)
              => /\ (t.st = "stopcheck" /\ t.lc * cfg.p >= cfg.L) => stream_stop_event'
                 /\ t.st = "stopcheck" => X' = X
                 /\ t.st = "update"
                       => /\ t.lc * cfg.p <= cfg.L
                          /\ X' = [i \in 1..cfg.L |->
                                     IF i > start /\ i <= start + cfg.p
                                     THEN ColumnSum(t.lc, cfg.b, cfg.p, i - start)
                                     ELSE X[i]]]_vars

\* C23: in the "average" and "pass" modes a DoAnalysis call writes the sink
\* exactly when loop_count % loop_count_update = 0 and leaves it unchanged
\* otherwise; no DoAnalysis call sets the stop signal (it changes only in a
\* step of the supervisor, which moves neither the loop nor a thread); and
\* the loop is left only after it read the stop signal as set, on a
\* stream-completed status, or on an error (a failed transfer, a full FIFO,
\* a malformed transfer status).
C23_UpdateIntervalGatesWrite ==
    [][cfg.mode \in {"average", "pass"}
       => /\ \A s \in Slots :
                (work_threads[s].st = "update" /\ work_threads'[s].st = "finished")
                => /\ work_threads'[s].read # -1 <=> work_threads[s].lc % cfg.u = 0
                   /\ work_threads[s].lc % cfg.u # 0 => X' = X
          /\ stream_stop_event' # stream_stop_event
                => (stream_stop_event' /\ pc' = pc /\ work_threads' = work_threads)
          /\ (pc # "teardown" /\ pc' = "teardown")
                => \/ hist'.stopSeenAt >= 0
                   \/ stream_completed_success
                   \/ hist.statusFatal
                   \/ hist'.lastXfer = "error"]_vars

C23_Witness ==
    /\ cfg.mode = "average"
    /\ cfg.u = 2
    /\ cfg.N_threads = 2
    /\ work_threads[0].st = "finished" /\ work_threads[0].lc = 1 /\ work_threads[0].read = -1
    /\ work_threads[1].st = "finished" /\ work_threads[1].lc = 2 /\ work_threads[1].read # -1
    /\ hist.stopSeenAt >= 0
    /\ hist.drainDone

\* C24: in the loop iteration with loop_count = c the transfer is issued for
\* streaming buffer c % 4 and its data lands in that buffer and no other; the
\* dispatch comes after the transfer of the same iteration was issued; it
\* starts no thread when c = 0, and otherwise the thread it starts is for loop
\* count c on the work buffer as the previous iteration left it, in slot
\* (c - 1) % N_threads.
C24_TransferThenSubmit ==
    [][/\ (pc = "transfer" /\ pc' # pc) => buffer_count = loop_count % NBuffers
       /\ (pc = "status" /\ pc' # pc)
             => \A i \in 0..(NBuffers - 1) :
                   i # loop_count % NBuffers => buffer_list'[i] = buffer_list[i]
       /\ (pc = "dispatch" /\ pc' # pc)
             => /\ hist.transfers = loop_count + 1
                /\ loop_count = 0
                      => work_threads' = work_threads /\ hist'.submitted = hist.submitted
                /\ \A s \in Slots :
                      work_threads'[s] # work_threads[s]
                      => /\ s = (loop_count - 1) % cfg.N_threads
                         /\ work_threads'[s].lc = loop_count
                         /\ work_threads'[s].wb = WorkBuffer
                         /\ work_threads'[s].st \in {"stopcheck", "update"}]_vars

C24_Witness ==
    /\ cfg.N_threads = 3
    /\ pc = "status"
    /\ loop_count = NBuffers
    /\ buffer_count = 0
    /\ hist.transfers = NBuffers + 1
    /\ work_threads[0].lc = NBuffers
    /\ work_threads[0].st # "finished"

\* C25: the DoAnalysis threads started so far, the final drain's included,
\* are for the loop counts 1, 2, 3, ... in this order, each once; none is
\* started with loop count 0 or on a work buffer into which no transferred
\* data was copied; and once the drain has started its thread there is one
\* thread for every buffer that was copied into the work buffer.
C25_OneCallPerLoopCount ==
    /\ \A i \in 1..Len(hist.submitted) : hist.submitted[i] = i
    /\ \A s \in Slots :
          work_threads[s].st # "none" => (work_threads[s].lc >= 1 /\ work_threads[s].wb >= 1)
    /\ pc \in {"drain_join", "save", "exit", "returned"} => Len(hist.submitted) = loop_count

\* C26: the shared counter mp_loop_count never decreases: no DoAnalysis
\* thread writes a smaller loop count after a thread with a larger one has
\* written its own (in a run without errors where every transfer delivered
\* its data).
C26_LoopCounterMonotonic ==
    [][(~stream_error_event /\ hist.lastXfer = "ok" /\ hist.fills = loop_count)
       => mp_loop_count' >= mp_loop_count]_vars

\* The positions of stream() whose next step is a call on the device handle.
DeviceCallPcs ==
    {"get_handle", "system_info", "configure", "expert", "commit", "tick_freq",
     "total_size", "alloc", "tail_size", "start_capture", "transfer", "status",
     "teardown"}

\* C28: FreeSystem is called at most once and is the last call on the device:
\* once a buffer was released or the system freed, stream() is at no position
\* from which it transfers, queries a status, releases or aborts; and from
\* the start of the final drain on, the four buffers were released, the
\* capture aborted and the system freed, in this order.
C28_NoDeviceUseAfterFree ==
    /\ devlog # <<>>
          => /\ Last(devlog) = FreeSystem
             /\ \A i \in 1..(Len(devlog) - 1) : devlog[i] # FreeSystem
             /\ pc \notin DeviceCallPcs
    /\ pc \in {"drain_start", "drain_join", "save", "exit"} => devlog = LoopTeardown
    /\ hist.drainDone => devlog = LoopTeardown

C28_Witness ==
    /\ pc = "drain_join"
    /\ hist.transfers = 2
    /\ loop_count = 2
    /\ devlog = LoopTeardown
    /\ FinalThread.lc = 2
    /\ FinalThread.st = "finished"

\* The first loop count whose cumulative length reaches the target.
FirstReaching(c) ==
    CHOOSE n \in 1..c.L :
        /\ n * Step(c) >= c.L
        /\ \A m \in 1..(n - 1) : m * Step(c) < c.L

\* C27: in a save mode, left alone, the loop ends: with n the first loop
\* count whose cumulative length reaches the target, the stop signal is set
\* when the loop has joined the thread for loop count n to reuse its slot,
\* loop_count never exceeds n + N_threads + 1, and every run that entered the
\* loop leaves it.
C27_SaveLoopEndsOnItsOwn ==
    /\ [][(/\ pc = "dispatch"
            /\ pc' # pc
            /\ work_buffer_active
            /\ active_threads[thread_count]
            /\ work_threads[thread_count].lc = FirstReaching(cfg))
           => stream_stop_event]_vars
    /\ [](loop_count <= FirstReaching(cfg) + cfg.N_threads + 1)
    /\ (hist.reachedLoop ~> pc \in AfterTeardown)

C27_Witness ==
    /\ cfg.N_threads = 2
    /\ cfg.L = 2
    /\ pc = "drain_start"
    /\ ~stream_error_event
    /\ hist.lastXfer = "ok"
    /\ loop_count = FirstReaching(cfg) + cfg.N_threads + 1
    /\ hist.fills = loop_count
====
